---- MODULE Spec2Model ----
(***************************************************************************)
(* Ingestion coordinator and identity resolver of the real-estate listing  *)
(* service: PostService.save_post / _check_duplicates / mark_deleted over  *)
(* the relational store (posts, listings, media, duplicates, channels).    *)
(*                                                                         *)
(* One call of save_post or mark_deleted is one transaction (get_session): *)
(* the writes of a call are made on a transaction-local copy of the store  *)
(* and become the committed store only if no step raised.                  *)
(*                                                                         *)
(* Abstractions: primary keys are dense (1, 2, ...; only equality and the  *)
(* truthiness of an id are used by the code); published_at is a natural    *)
(* number (the code only compares timestamps); deleted_at is folded into   *)
(* is_deleted (they are always written together); sha256 is modelled as an *)
(* injective function of the normalised text.                              *)
(***************************************************************************)
EXTENDS Integers, Sequences, FiniteSets, TLC

VARIABLES db, prev, last, nops

vars == <<db, prev, last, nops>>

(* ------------------------------ bounds -------------------------------- *)
MaxOps  == 3      \* number of service calls in one behaviour
MaxTime == 2      \* author timestamps 1..MaxTime
MaxTail == 2      \* words of a text that follow its first FingerprintWords - 1 words
MaxPhones == 2    \* entries of a phone list given to compute_fingerprint
MaxTokens == 2    \* lexical items of a text given to the extraction pipelines

(* --------------------------- program constants ------------------------ *)
SimExact == 10    \* similarity=1.0 of a text_exact link, in tenths
SimPhone == 7     \* similarity=0.7 of a phone link, in tenths

NoId   == 0       \* None for an id column (ids start at 1, so None and 0 are both falsy)
NoHash == <<>>    \* None for text_hash
None   == <<>>    \* None for a value of a parsed record; a value v is <<v>>
ChatId == "chat"  \* the Telegram chat the listener is subscribed to
ChannelTitle == "title"

(* ------------------------- text hash (pure) --------------------------- *)
Lower(c) == IF c = "A" THEN "a" ELSE IF c = "B" THEN "b" ELSE c

IsSpace(c) == c = " "

RECURSIVE LowerText(_)
LowerText(t) == IF t = <<>> THEN <<>> ELSE <<Lower(Head(t))>> \o LowerText(Tail(t))

\* str.split(): the maximal runs of non-whitespace characters
RECURSIVE Split(_, _)
Split(t, cur) ==
    IF t = <<>> THEN (IF cur = <<>> THEN <<>> ELSE <<cur>>)
    ELSE IF IsSpace(Head(t))
         THEN (IF cur = <<>> THEN <<>> ELSE <<cur>>) \o Split(Tail(t), <<>>)
         ELSE Split(Tail(t), Append(cur, Head(t)))

\* " ".join(words)
RECURSIVE Join(_)
Join(ws) ==
    IF ws = <<>> THEN <<>>
    ELSE IF Len(ws) = 1 THEN Head(ws)
    ELSE Head(ws) \o <<" ">> \o Join(Tail(ws))

\* sha256(...).hexdigest(): injective on the normalised text, never the empty digest
compute_text_hash(text) == <<"sha256">> \o Join(Split(LowerText(text), <<>>))

(* ------------------------- fingerprint (pure) ------------------------- *)
FingerprintWords == 20    \* text.lower().split()[:20]

\* the order of the phone strings under sorted()
PhoneRank(p) == IF p = "p1" THEN 1 ELSE 2

\* sorted(phones): a stable insertion sort, equal entries are all kept
RECURSIVE sorted(_)
sorted(ps) ==
    IF ps = <<>> THEN <<>>
    ELSE LET rest == sorted(Tail(ps))
             lo   == SelectSeq(rest, LAMBDA q : PhoneRank(q) < PhoneRank(Head(ps)))
             hi   == SelectSeq(rest, LAMBDA q : PhoneRank(q) >= PhoneRank(Head(ps)))
         IN  lo \o <<Head(ps)>> \o hi

\* ",".join(phones)
RECURSIVE JoinComma(_)
JoinComma(ps) ==
    IF ps = <<>> THEN <<>>
    ELSE IF Len(ps) = 1 THEN ps
    ELSE <<Head(ps), ",">> \o JoinComma(Tail(ps))

\* words[:n]
FirstWords(ws, n) == SubSeq(ws, 1, IF Len(ws) < n THEN Len(ws) ELSE n)

\* md5(" ".join(words) + "|" + phones_str).hexdigest(): injective on the data
compute_fingerprint(text, phones) ==
    <<"md5">> \o Join(FirstWords(Split(LowerText(text), <<>>), FingerprintWords))
              \o <<"|">> \o JoinComma(sorted(phones))

\* the phone list of a post: extract_phones returns list(set), distinct entries
RECURSIVE PhoneList(_)
PhoneList(S) ==
    IF S = {} THEN <<>>
    ELSE LET p == CHOOSE p \in S : TRUE IN <<p>> \o PhoneList(S \ {p})

(* ------------------------------ the store ----------------------------- *)
EmptyDb == [channels |-> <<>>, posts |-> <<>>, listings |-> {}, media |-> {},
            duplicates |-> <<>>]

PostIds(d) == 1..Len(d.posts)

\* a transaction: the session's view of the store and whether a flush raised
Begin(d) == [db |-> d, failed |-> FALSE, step |-> "none"]

Fail(tx, stepname) == [tx EXCEPT !.failed = TRUE, !.step = stepname]

\* session.flush() of one INSERT: raises when storage fails at this step or a
\* uniqueness constraint is violated, otherwise the row is in the session's view
Flush(tx, stepname, fault, conflict, newdb) ==
    IF tx.failed THEN tx
    ELSE IF fault = stepname \/ conflict THEN Fail(tx, stepname)
    ELSE [tx EXCEPT !.db = newdb]

\* mutant: the partial writes of a failed body are committed
get_session_no_rollback(d, tx) == tx.db

\* get_session: commit when the body returned, rollback and re-raise otherwise
get_session(d, tx) == IF tx.failed THEN d ELSE tx.db

(* ------------------------------ ChannelRepo --------------------------- *)
ChannelIndex(d, telegram_id) ==
    {i \in 1..Len(d.channels) : d.channels[i].telegram_id = telegram_id}

\* get_or_create: the stored channel with its title refreshed, or a new row
ChannelRepo_get_or_create(tx, telegram_id, title, fault) ==
    IF tx.failed THEN tx
    ELSE IF ChannelIndex(tx.db, telegram_id) # {}
         THEN LET i == CHOOSE i \in ChannelIndex(tx.db, telegram_id) : TRUE
              IN  [tx EXCEPT !.db.channels[i].title = title]
         ELSE Flush(tx, "channel", fault, FALSE,
                    [tx.db EXCEPT !.channels =
                        Append(@, [telegram_id |-> telegram_id, title |-> title])])

ChannelOf(d, telegram_id) == CHOOSE i \in ChannelIndex(d, telegram_id) : TRUE

(* -------------------------------- PostRepo ---------------------------- *)
\* mutant: the idempotency check never finds the post
PostRepo_exists_never(d, post_uid) == FALSE

PostRepo_exists(d, post_uid) == \E i \in PostIds(d) : d.posts[i].post_uid = post_uid

\* uq on post_uid, uq_post_channel_message on (channel_id, message_id)
PostConflict(d, post_uid, channel_id, message_id) ==
    \E i \in PostIds(d) :
        \/ d.posts[i].post_uid = post_uid
        \/ d.posts[i].channel_id = channel_id /\ d.posts[i].message_id = message_id

PostRepo_create(tx, pd, channel_id, fault) ==
    IF tx.failed THEN tx
    ELSE Flush(tx, "post", fault,
               PostConflict(tx.db, pd.post_uid, channel_id, pd.message_id),
               [tx.db EXCEPT !.posts = Append(@,
                   [post_uid     |-> pd.post_uid,
                    channel_id   |-> channel_id,
                    message_id   |-> pd.message_id,
                    published_at |-> pd.date_utc,
                    text_raw     |-> pd.text,
                    phones       |-> pd.phones,
                    text_hash    |-> IF pd.text # <<>> THEN compute_text_hash(pd.text)
                                     ELSE NoHash,
                    fingerprint  |-> compute_fingerprint(pd.text, PhoneList(pd.phones)),
                    is_deleted   |-> FALSE,
                    duplicate_of |-> NoId])])

\* mutant: the new post itself is not excluded from the result
find_duplicates_by_hash_no_exclude(d, text_hash, exclude_id) ==
    {i \in PostIds(d) : /\ d.posts[i].text_hash = text_hash
                        /\ ~d.posts[i].is_deleted}

\* WHERE text_hash = :h AND is_deleted = false [AND id != :exclude_id]
find_duplicates_by_hash(d, text_hash, exclude_id) ==
    {i \in PostIds(d) : /\ d.posts[i].text_hash = text_hash
                        /\ ~d.posts[i].is_deleted
                        /\ (exclude_id # NoId => i # exclude_id)}

\* mutant: deleted posts are not filtered out
find_duplicates_by_phone_with_deleted(d, phones, exclude_id) ==
    IF phones = {} THEN {}
    ELSE {i \in PostIds(d) : /\ d.posts[i].phones \cap phones # {}
                             /\ (exclude_id # NoId => i # exclude_id)}

\* WHERE phones && :phones AND is_deleted = false [AND id != :exclude_id]
find_duplicates_by_phone(d, phones, exclude_id) ==
    IF phones = {} THEN {}
    ELSE {i \in PostIds(d) : /\ d.posts[i].phones \cap phones # {}
                             /\ ~d.posts[i].is_deleted
                             /\ (exclude_id # NoId => i # exclude_id)}

\* ORDER BY published_at: every order of the rows the database may return
OrderByPublishedAt(d, S) ==
    {s \in [1..Cardinality(S) -> S] :
        /\ \A i, j \in 1..Cardinality(S) : i # j => s[i] # s[j]
        /\ \A i, j \in 1..Cardinality(S) :
              i < j => d.posts[s[i]].published_at <= d.posts[s[j]].published_at}

\* mutant: posts that are already deleted are selected again
DeletedByMessageId_again(d, message_id, channel_id) ==
    {i \in PostIds(d) : /\ d.posts[i].message_id = message_id
                        /\ (channel_id # NoId => d.posts[i].channel_id = channel_id)}

\* mark_deleted_by_message_id: the ids it updates
DeletedByMessageId(d, message_id, channel_id) ==
    {i \in PostIds(d) : /\ d.posts[i].message_id = message_id
                        /\ ~d.posts[i].is_deleted
                        /\ (channel_id # NoId => d.posts[i].channel_id = channel_id)}

PostRepo_mark_deleted_by_message_id(d, message_id, channel_id) ==
    [d EXCEPT !.posts = [i \in PostIds(d) |->
        IF i \in DeletedByMessageId(d, message_id, channel_id)
        THEN [d.posts[i] EXCEPT !.is_deleted = TRUE] ELSE d.posts[i]]]

(* ------------------------- MediaRepo, ListingRepo --------------------- *)
ReviewThreshold == 4    \* needs_review = parse_score < 4 or ...

\* parsed.get(key): None when the key is missing
Get(parsed, key) == IF key \in DOMAIN parsed THEN parsed[key] ELSE None

\* truthiness of an optional number, string or list
TruthyNum(v) == v # None /\ v[1] # 0

TruthyStr(v) == v # None /\ v[1] # ""

TruthyList(v) == v # None /\ v[1] # <<>>

\* parsed.get("is_real_estate")
IsRealEstate(parsed) == "is_real_estate" \in DOMAIN parsed /\ parsed.is_real_estate

Score(cond, points) == IF cond THEN points ELSE 0

\* ListingRepo.create: the quality score of a parsed record
ParseScore(parsed) ==
      Score(TruthyNum(Get(parsed, "rooms")), 1)
    + Score(TruthyNum(Get(parsed, "floor")), 1)
    + Score(TruthyNum(Get(parsed, "area_m2")), 1)
    + Score(TruthyNum(Get(parsed, "price")), 2)
    + Score(TruthyStr(Get(parsed, "district_raw")), 1)
    + Score(TruthyStr(Get(parsed, "metro_raw")), 1)
    + Score(TruthyStr(Get(parsed, "description_clean")), 1)
    + Score(TruthyList(Get(parsed, "phones")), 1)

\* mutant: only the score decides, the deal type is not looked at
NeedsReview_score_only(parsed) == ParseScore(parsed) < ReviewThreshold

NeedsReview(parsed) ==
    ParseScore(parsed) < ReviewThreshold \/ Get(parsed, "deal_type") = <<"unknown">>

ListingsOf(d, post_id) == {l \in d.listings : l.post_id = post_id}

\* uq_media_post_message on (post_id, message_id)
MediaRepo_create(tx, post_id, message_id, media_type, fault) ==
    IF tx.failed THEN tx
    ELSE Flush(tx, "media", fault,
               \E m \in tx.db.media : m.post_id = post_id /\ m.message_id = message_id,
               [tx.db EXCEPT !.media = @ \cup
                   {[post_id |-> post_id, message_id |-> message_id,
                     media_type |-> media_type]}])

\* listings.post_id is unique
ListingRepo_create(tx, post_id, parsed, fault) ==
    IF tx.failed THEN tx
    ELSE Flush(tx, "listing", fault, ListingsOf(tx.db, post_id) # {},
               [tx.db EXCEPT !.listings = @ \cup
                   {[post_id      |-> post_id,
                     deal_type    |-> Get(parsed, "deal_type"),
                     parse_score  |-> ParseScore(parsed),
                     needs_review |-> NeedsReview(parsed)]}])

(* ------------------------------ DuplicateRepo ------------------------- *)
\* mutant: the table has no unique constraint on the pair
DuplicateConflict_none(d, original_id, duplicate_id) == FALSE

\* uq_duplicate_pair on (original_id, duplicate_id)
DuplicateConflict(d, original_id, duplicate_id) ==
    \E k \in 1..Len(d.duplicates) :
        /\ d.duplicates[k].original_id = original_id
        /\ d.duplicates[k].duplicate_id = duplicate_id

\* mutant: every row is stored as a phone match
DuplicateRepo_create_phone(tx, original_id, duplicate_id, similarity, match_type, fault) ==
    IF tx.failed THEN tx
    ELSE Flush(tx, "duplicate", fault,
               DuplicateConflict(tx.db, original_id, duplicate_id),
               [tx.db EXCEPT !.duplicates = Append(@,
                   [original_id |-> original_id, duplicate_id |-> duplicate_id,
                    similarity |-> similarity, match_type |-> "phone"])])

DuplicateRepo_create(tx, original_id, duplicate_id, similarity, match_type, fault) ==
    IF tx.failed THEN tx
    ELSE Flush(tx, "duplicate", fault,
               DuplicateConflict(tx.db, original_id, duplicate_id),
               [tx.db EXCEPT !.duplicates = Append(@,
                   [original_id |-> original_id, duplicate_id |-> duplicate_id,
                    similarity |-> similarity, match_type |-> match_type])])

(* -------------------------------- PostService ------------------------- *)
NoMediaType == "None"

\* the items _save_media iterates: the album, or the single media of the message
MediaItems(pd) ==
    IF pd.media # <<>> THEN pd.media
    ELSE IF pd.media_type # NoMediaType
         THEN <<[message_id |-> pd.message_id, media_type |-> pd.media_type]>>
         ELSE <<>>

RECURSIVE SaveMediaLoop(_, _, _, _)
SaveMediaLoop(tx, post_id, items, fault) ==
    IF items = <<>> THEN tx
    ELSE LET item == Head(items)
             t1   == IF item.media_type # NoMediaType
                     THEN MediaRepo_create(tx, post_id, item.message_id,
                                           item.media_type, fault)
                     ELSE tx
         IN  SaveMediaLoop(t1, post_id, Tail(items), fault)

PostService_save_media(tx, post_id, pd, fault) ==
    SaveMediaLoop(tx, post_id, MediaItems(pd), fault)

\* mutant: marking a post as duplicate also hides it
SetDuplicateOf_and_hide(tx, duplicate_id, original_id) ==
    IF tx.failed THEN tx
    ELSE [tx EXCEPT !.db.posts[duplicate_id].duplicate_of = original_id,
                    !.db.posts[duplicate_id].is_deleted = TRUE]

\* duplicate.duplicate_of = original.id on the session's object
SetDuplicateOf(tx, duplicate_id, original_id) ==
    IF tx.failed THEN tx
    ELSE [tx EXCEPT !.db.posts[duplicate_id].duplicate_of = original_id]

\* mutant: the later post of a pair is taken as the original
Earlier_reversed(d, a, b) == d.posts[a].published_at > d.posts[b].published_at

\* a.published_at < b.published_at: a is the original of the pair (a, b)
Earlier(d, a, b) == d.posts[a].published_at < d.posts[b].published_at

\* for dup in duplicates: the earlier of (dup, post) is the original
RECURSIVE HashLoop(_, _, _, _)
HashLoop(tx, post_id, dups, fault) ==
    IF dups = <<>> \/ tx.failed THEN tx
    ELSE LET dup       == Head(dups)
             dupFirst  == Earlier(tx.db, dup, post_id)
             original  == IF dupFirst THEN dup ELSE post_id
             duplicate == IF dupFirst THEN post_id ELSE dup
             t1 == DuplicateRepo_create(tx, original, duplicate, SimExact,
                                        "text_exact", fault)
             t2 == SetDuplicateOf(t1, duplicate, original)
         IN  HashLoop(t2, post_id, Tail(dups), fault)

\* for match in phone_matches: skipped once the post itself is marked duplicate
RECURSIVE PhoneLoop(_, _, _, _)
PhoneLoop(tx, post_id, matches, fault) ==
    IF matches = <<>> \/ tx.failed THEN tx
    ELSE LET match      == Head(matches)
             matchFirst == Earlier(tx.db, match, post_id)
             t1 == IF tx.db.posts[post_id].duplicate_of # NoId THEN tx
                   ELSE DuplicateRepo_create(tx,
                            IF matchFirst THEN match ELSE post_id,
                            IF matchFirst THEN post_id ELSE match,
                            SimPhone, "phone", fault)
         IN  PhoneLoop(t1, post_id, Tail(matches), fault)

\* the rows the two queries of _check_duplicates select for the new post
\* mutant: the text-hash query runs for a post without a text hash as well
HashMatches_unguarded(d, post_id) ==
    find_duplicates_by_hash(d, d.posts[post_id].text_hash, post_id)

HashMatches(d, post_id) ==
    IF d.posts[post_id].text_hash # NoHash
    THEN find_duplicates_by_hash(d, d.posts[post_id].text_hash, post_id)
    ELSE {}

PhoneMatches(d, post_id) ==
    IF d.posts[post_id].phones # {}
    THEN find_duplicates_by_phone(d, d.posts[post_id].phones, post_id)
    ELSE {}

PostService_check_duplicates(tx, post_id, dups, matches, fault) ==
    PhoneLoop(HashLoop(tx, post_id, dups, fault), post_id, matches, fault)

\* mutant: a listing is created whatever the parsed record says
SaveUpToListing_always(d, pd, fault) ==
    LET t1 == ChannelRepo_get_or_create(Begin(d), pd.channel_id, pd.channel_title, fault)
        t2 == IF t1.failed THEN t1
              ELSE PostRepo_create(t1, pd, ChannelOf(t1.db, pd.channel_id), fault)
        t3 == IF t2.failed THEN t2
              ELSE PostService_save_media(t2, Len(t2.db.posts), pd, fault)
    IN  IF t3.failed THEN t3
        ELSE ListingRepo_create(t3, Len(t3.db.posts), pd.parsed, fault)

\* steps 2-6 of save_post, up to the duplicate check
SaveUpToListing(d, pd, fault) ==
    LET t1 == ChannelRepo_get_or_create(Begin(d), pd.channel_id, pd.channel_title, fault)
        t2 == IF t1.failed THEN t1
              ELSE PostRepo_create(t1, pd, ChannelOf(t1.db, pd.channel_id), fault)
        t3 == IF t2.failed THEN t2
              ELSE PostService_save_media(t2, Len(t2.db.posts), pd, fault)
    IN  IF t3.failed \/ ~IsRealEstate(pd.parsed) THEN t3
        ELSE ListingRepo_create(t3, Len(t3.db.posts), pd.parsed, fault)

(* -------------------------------- actions ----------------------------- *)
\* save_post(post_data) with storage failing at step `fault` ("none": healthy)
save_post(pd, fault) ==
    /\ nops < MaxOps
    /\ nops' = nops + 1
    /\ prev' = db
    /\ IF PostRepo_exists(db, pd.post_uid)
       THEN /\ db' = get_session(db, Begin(db))
            /\ last' = [op |-> "save_post", pd |-> pd, fault |-> fault, ret |-> NoId,
                        raised |-> FALSE, step |-> "none", count |-> 0]
       ELSE \E t4 \in {SaveUpToListing(db, pd, fault)} :
            \E dups \in (IF t4.failed THEN {<<>>}
                         ELSE OrderByPublishedAt(t4.db,
                                  HashMatches(t4.db, Len(t4.db.posts)))) :
            \E matches \in (IF t4.failed THEN {<<>>}
                            ELSE OrderByPublishedAt(t4.db,
                                     PhoneMatches(t4.db, Len(t4.db.posts)))) :
            \E t5 \in {IF t4.failed THEN t4
                        ELSE PostService_check_duplicates(t4, Len(t4.db.posts), dups,
                                                          matches, fault)} :
               /\ db' = get_session(db, t5)
               /\ last' = [op |-> "save_post", pd |-> pd, fault |-> fault,
                           ret |-> IF t5.failed THEN NoId ELSE Len(t5.db.posts),
                           raised |-> t5.failed, step |-> t5.step, count |-> 0]

\* mark_deleted(message_ids, channel_id)
RECURSIVE MarkDeletedLoop(_, _, _, _)
MarkDeletedLoop(d, message_ids, channel_id, count) ==
    IF message_ids = <<>> THEN [db |-> d, count |-> count]
    ELSE MarkDeletedLoop(
            PostRepo_mark_deleted_by_message_id(d, Head(message_ids), channel_id),
            Tail(message_ids), channel_id,
            count + Cardinality(DeletedByMessageId(d, Head(message_ids), channel_id)))

mark_deleted(message_ids, channel_id) ==
    /\ nops < MaxOps
    /\ nops' = nops + 1
    /\ prev' = db
    /\ \E r \in {MarkDeletedLoop(db, message_ids, channel_id, 0)} :
           /\ db' = get_session(db, [Begin(db) EXCEPT !.db = r.db])
           /\ last' = [op |-> "mark_deleted", pd |-> [message_ids |-> message_ids,
                                                      channel_id |-> channel_id],
                       fault |-> "none", ret |-> NoId, raised |-> FALSE,
                       step |-> "none", count |-> r.count]

(* -------------------------------- inputs ------------------------------ *)
Texts  == {<<>>, <<"a">>, <<"A", " ">>}
Phones == {{}, {"p1"}, {"p2"}}
Kinds  == {"msg", "album"}
Steps  == {"channel", "post", "media", "listing", "duplicate"}

\* at most one new message per call
Msgs == 1..MaxOps

\* parsed = parse_real_estate(text, tags): a function of the text
ParsedIsRealEstate(text) == text # <<>>

\* the parsed record of a text: nothing but the deal type is extracted
Parsed(text) ==
    IF ParsedIsRealEstate(text)
    THEN [is_real_estate |-> TRUE, deal_type |-> <<"unknown">>]
    ELSE [is_real_estate |-> FALSE]

\* the post dict the listener builds for a message (on_message) or an album (on_album)
PostDict(kind, msg, ts, text, phones) ==
    [post_uid      |-> <<kind, ChatId, msg>>,
     channel_id    |-> ChatId,
     channel_title |-> ChannelTitle,
     message_id    |-> msg,
     date_utc      |-> ts,
     text          |-> text,
     phones        |-> phones,
     media_type    |-> IF kind = "album" THEN "image" ELSE NoMediaType,
     media         |-> IF kind = "album"
                       THEN <<[message_id |-> msg, media_type |-> "image"],
                              [message_id |-> msg + 1, media_type |-> "video"]>>
                       ELSE <<>>,
     parsed        |-> Parsed(text)]

\* message ids are interchangeable: a new message takes the least unused id
KnownMsgs == {db.posts[i].message_id : i \in PostIds(db)}

NextMsg == Cardinality(KnownMsgs) + 1

\* a redelivered message carries the content it was stored with
Redelivered(pd) ==
    \E i \in PostIds(db) : /\ db.posts[i].post_uid = pd.post_uid
                           /\ db.posts[i].published_at = pd.date_utc
                           /\ db.posts[i].text_raw = pd.text
                           /\ db.posts[i].phones = pd.phones

Init ==
    /\ db = EmptyDb
    /\ prev = EmptyDb
    /\ last = [op |-> "init", pd |-> <<>>, fault |-> "none", ret |-> NoId,
               raised |-> FALSE, step |-> "none", count |-> 0]
    /\ nops = 0

\* a healthy store: no storage fault, text-only messages of any content
SavePost ==
    /\ nops < MaxOps
    /\ \E msg \in Msgs, ts \in 1..MaxTime, text \in Texts, phones \in Phones :
          LET pd == PostDict("msg", msg, ts, text, phones)
          IN  /\ msg = NextMsg \/ Redelivered(pd)
              /\ save_post(pd, "none")

\* storage may fail at any step; messages and albums with one text and one phone
SavePostFault ==
    /\ nops < MaxOps
    /\ \E kind \in Kinds, msg \in Msgs, ts \in 1..MaxTime, fault \in Steps \cup {"none"},
          parsed \in {Parsed(<<"a">>), Parsed(<<>>)} :
          /\ msg <= NextMsg
          /\ save_post([PostDict(kind, msg, ts, <<"a">>, {"p1"})
                            EXCEPT !.parsed = parsed], fault)

\* mark_deleted(message_ids) of a stored message, in any channel
MarkDeleted ==
    /\ nops < MaxOps
    /\ \E msg \in KnownMsgs : mark_deleted(<<msg>>, NoId)

\* mark_deleted(message_ids, channel_id) of a stored message, in the stored channel
MarkDeletedInChannel ==
    /\ nops < MaxOps
    /\ \E msg \in KnownMsgs, channel_id \in ChannelIndex(db, ChatId) :
          mark_deleted(<<msg>>, channel_id)

Next == SavePost \/ MarkDeleted

Spec == Init /\ [][Next]_vars

NextFault == SavePostFault \/ MarkDeleted \/ MarkDeletedInChannel

SpecFault == Init /\ [][NextFault]_vars

\* a healthy store with both forms of mark_deleted
NextStore == SavePost \/ MarkDeleted \/ MarkDeletedInChannel

SpecStore == Init /\ [][NextStore]_vars

(* ------------------- two concurrent calls of save_post ----------------- *)
(* Each call runs in its own session and transaction (get_session) against *)
(* PostgreSQL under its default isolation level, READ COMMITTED: a          *)
(* statement sees the rows committed before it began and the rows of its   *)
(* own transaction. The calls interleave at the awaits of save_post; one   *)
(* step is one group of statements: the exists query, the inserts of       *)
(* steps 2-6, the text-hash query with its loop, the phone query with its  *)
(* loop, and the commit. db holds every row written, committed or not; the *)
(* ids of rolled-back rows are not reused. An insert whose unique key is   *)
(* held by a row the other transaction has not committed waits for that    *)
(* transaction to end.                                                     *)
Tasks == {1, 2}

Other(t) == 3 - t

\* the row left at an id whose insert was rolled back, and the row a transaction
\* sees in place of a row the other transaction has not committed
NoPost ==
    [post_uid |-> <<"none">>, channel_id |-> NoId, message_id |-> 0, published_at |-> 0,
     text_raw |-> <<>>, phones |-> {}, text_hash |-> NoHash, fingerprint |-> <<>>,
     is_deleted |-> TRUE, duplicate_of |-> NoId]

NewTask(pd) ==
    [pd |-> pd, pc |-> "exists", post_id |-> NoId, ret |-> NoId, raised |-> FALSE,
     step |-> "none", chan |-> FALSE, links |-> {}, undo |-> {}]

\* the transaction of the task has written rows and has not ended
Open(task) == task.pc \in {"hash", "phone", "commit"}

\* the store as a statement of task t sees it
View(d, o) ==
    IF ~Open(o) THEN d
    ELSE [d EXCEPT !.posts = [i \in PostIds(d) |->
                                 IF i = o.post_id THEN NoPost ELSE d.posts[i]],
                   !.channels = IF o.chan THEN SubSeq(@, 1, Len(@) - 1) ELSE @,
                   !.duplicates = SelectSeq(@, LAMBDA r :
                                      <<r.original_id, r.duplicate_id>> \notin o.links)]

\* the rows the transaction of `view` wrote, put into the store
Install(d, o, view) ==
    [d EXCEPT !.posts = [i \in 1..Len(view.posts) |->
                            IF Open(o) /\ i = o.post_id THEN d.posts[i]
                            ELSE view.posts[i]],
              !.channels = IF Open(o) /\ o.chan THEN @ ELSE view.channels,
              !.media = @ \cup view.media,
              !.listings = @ \cup view.listings,
              !.duplicates = @ \o SelectSeq(view.duplicates, LAMBDA r :
                                      ~DuplicateConflict(d, r.original_id, r.duplicate_id))]

\* session.rollback(): the rows of the task are gone, the updates it made are undone
Rollback(d, task) ==
    [d EXCEPT !.posts = [i \in PostIds(d) |->
                            IF i = task.post_id THEN NoPost
                            ELSE IF \E u \in task.undo : u[1] = i
                                 THEN [d.posts[i] EXCEPT !.duplicate_of =
                                          (CHOOSE u \in task.undo : u[1] = i)[2]]
                                 ELSE d.posts[i]],
              !.channels = IF task.chan THEN SubSeq(@, 1, Len(@) - 1) ELSE @,
              !.media = {m \in @ : m.post_id # task.post_id},
              !.listings = {l \in @ : l.post_id # task.post_id},
              !.duplicates = SelectSeq(@, LAMBDA r :
                                 <<r.original_id, r.duplicate_id>> \notin task.links)]

\* the exception leaves save_post: rollback and re-raise
Raise(task, stepname) ==
    [task EXCEPT !.pc = "done", !.raised = TRUE, !.step = stepname, !.ret = NoId]

\* the pairs of the Duplicate rows and the duplicate_of values a loop wrote
LinksWritten(view, after) ==
    {<<after.duplicates[k].original_id, after.duplicates[k].duplicate_id>> :
        k \in (Len(view.duplicates) + 1)..Len(after.duplicates)}

UndoWritten(view, after, task) ==
    {<<i, view.posts[i].duplicate_of>> :
        i \in {j \in PostIds(view) : /\ j # task.post_id
                                     /\ after.posts[j].duplicate_of
                                            # view.posts[j].duplicate_of
                                     /\ \A u \in task.undo : u[1] # j}}

\* an insert of the task waits for the other transaction: the other holds, not yet
\* committed, a row with the same unique key
WaitsForPost(d, pd, o) ==
    /\ Open(o)
    /\ \/ o.chan /\ ChannelIndex(View(d, o), pd.channel_id) = {}
       \/ d.posts[o.post_id].post_uid = pd.post_uid
       \/ d.posts[o.post_id].message_id = pd.message_id

WaitsForLink(pairs, o) == Open(o) /\ pairs \cap o.links # {}

\* 1. if await post_repo.exists(post_data["post_uid"]): return None
TaskExists(t) ==
    LET task == last.tasks[t]
        view == View(db, last.tasks[Other(t)])
    IN  /\ task.pc = "exists"
        /\ last' = [last EXCEPT !.tasks[t] =
                       IF PostRepo_exists(view, task.pd.post_uid)
                       THEN [task EXCEPT !.pc = "done"]
                       ELSE [task EXCEPT !.pc = "insert"]]
        /\ UNCHANGED <<db, prev>>
        /\ nops' = nops + 1

\* 2-6. the channel, the post, its media and its listing
TaskInsert(t) ==
    LET task == last.tasks[t]
        o    == last.tasks[Other(t)]
        view == View(db, o)
        t4   == SaveUpToListing(view, task.pd, "none")
    IN  /\ task.pc = "insert"
        /\ ~WaitsForPost(db, task.pd, o)
        /\ IF t4.failed
           THEN /\ last' = [last EXCEPT !.tasks[t] = Raise(task, t4.step)]
                /\ db' = db
           ELSE /\ last' = [last EXCEPT !.tasks[t] =
                               [task EXCEPT !.pc = "hash",
                                            !.post_id = Len(t4.db.posts),
                                            !.chan = Len(t4.db.channels) > Len(view.channels)]]
                /\ db' = Install(db, o, t4.db)
        /\ UNCHANGED prev
        /\ nops' = nops + 1

\* one loop of _check_duplicates over the rows its query returned
TaskLoop(t, nextpc, after) ==
    LET task == last.tasks[t]
        o    == last.tasks[Other(t)]
        view == View(db, o)
    IN  /\ ~WaitsForLink(LinksWritten(view, after.db), o)
        /\ IF after.failed
           THEN /\ last' = [last EXCEPT !.tasks[t] = Raise(task, after.step)]
                /\ db' = Rollback(db, task)
           ELSE /\ last' = [last EXCEPT !.tasks[t] =
                               [task EXCEPT !.pc = nextpc,
                                            !.links = @ \cup LinksWritten(view, after.db),
                                            !.undo = @ \cup UndoWritten(view, after.db, task)]]
                /\ db' = Install(db, o, after.db)
        /\ UNCHANGED prev
        /\ nops' = nops + 1

\* 7a. the text-hash query and its loop
TaskCheckHash(t) ==
    LET task == last.tasks[t]
        view == View(db, last.tasks[Other(t)])
    IN  /\ task.pc = "hash"
        /\ \E dups \in OrderByPublishedAt(view, HashMatches(view, task.post_id)) :
              TaskLoop(t, "phone", HashLoop(Begin(view), task.post_id, dups, "none"))

\* 7b. the phone query and its loop
TaskCheckPhone(t) ==
    LET task == last.tasks[t]
        view == View(db, last.tasks[Other(t)])
    IN  /\ task.pc = "phone"
        /\ \E matches \in OrderByPublishedAt(view, PhoneMatches(view, task.post_id)) :
              TaskLoop(t, "commit", PhoneLoop(Begin(view), task.post_id, matches, "none"))

\* return post.id, and session.commit() on leaving get_session
TaskCommit(t) ==
    LET task == last.tasks[t]
    IN  /\ task.pc = "commit"
        /\ last' = [last EXCEPT !.tasks[t] = [task EXCEPT !.pc = "done",
                                                          !.ret = task.post_id]]
        /\ UNCHANGED <<db, prev>>
        /\ nops' = nops + 1

\* the post dicts of two messages of the subscribed chat that arrive together
ConcurrentDicts ==
    {PostDict("msg", msg, ts, text, phones) :
        msg \in {1, 2}, ts \in 1..MaxTime, text \in {<<>>, <<"a">>},
        phones \in {{}, {"p1"}}}

\* no post is stored; the channel is stored or the two messages are its first
InitConcurrent ==
    /\ \E channels \in {<<>>, <<[telegram_id |-> ChatId, title |-> ChannelTitle]>>} :
          /\ db = [EmptyDb EXCEPT !.channels = channels]
          /\ prev = db
    /\ nops = 0
    /\ \E pd1, pd2 \in ConcurrentDicts :
          last = [op |-> "concurrent", tasks |-> <<NewTask(pd1), NewTask(pd2)>>]

Exists == \E t \in Tasks : TaskExists(t)

InsertPost == \E t \in Tasks : TaskInsert(t)

CheckHash == \E t \in Tasks : TaskCheckHash(t)

CheckPhone == \E t \in Tasks : TaskCheckPhone(t)

Commit == \E t \in Tasks : TaskCommit(t)

NextConcurrent == Exists \/ InsertPost \/ CheckHash \/ CheckPhone \/ Commit

SpecConcurrent == InitConcurrent /\ [][NextConcurrent]_vars

(* --------------------- one ingestion of a parsed record ---------------- *)
\* the values a key of the parsed record may carry
DealTypes == {None, <<"unknown">>, <<"rent_long">>}

ParsedRecords ==
    {[is_real_estate |-> TRUE, deal_type |-> dt, rooms |-> r, floor |-> f,
      area_m2 |-> a, price |-> p, district_raw |-> dr, metro_raw |-> m,
      description_clean |-> dc, phones |-> ph] :
        dt \in DealTypes, r \in {None, <<0>>, <<2>>}, f \in {None, <<4>>},
        a \in {None, <<65>>}, p \in {None, <<600>>}, dr \in {None, <<"district">>},
        m \in {None, <<"metro">>}, dc \in {<<"">>, <<"text">>},
        ph \in {<<<<>>>>, <<<<"p1">>>>}}

\* a message whose parsed record is any of ParsedRecords is about to be ingested
InitListing ==
    /\ db = EmptyDb
    /\ prev = EmptyDb
    /\ nops = 0
    /\ \E parsed \in ParsedRecords :
          last = [op |-> "input",
                  pd |-> [PostDict("msg", 1, 1, <<"a">>, {"p1"}) EXCEPT !.parsed = parsed],
                  fault |-> "none", ret |-> NoId, raised |-> FALSE, step |-> "none",
                  count |-> 0]

SaveParsed ==
    /\ last.op = "input"
    /\ save_post(last.pd, "none")

NextListing == SaveParsed

SpecListing == InitListing /\ [][NextListing]_vars

(* ---------------------- extraction: texts as lexical items ------------- *)
(* A text given to an extraction pipeline is a sequence of lexical items,  *)
(* each the piece of text one pattern of the pipelines recognises:         *)
(*   word     "уютная"          no pattern, no keyword                     *)
(*   kw       "аренда"          relevance keyword of both pipelines        *)
(*   tag      "#rent"           hashtag                                    *)
(*   triple   "a/b/c"           rooms/floor/total_floors shorthand         *)
(*   rooms    "комнат: a"       labelled rooms                             *)
(*   roomsadj "a комнатная"     rooms as an adjective (parser.py only)     *)
(*   floor    "этаж: a"         labelled floor                             *)
(*   total    "этажность: a"    labelled total floors                      *)
(*   price    "цена: a cur"     labelled price; cur is "", "$" or "sum",   *)
(*                              "sum" standing for the unit "сум"          *)
(*   dollar   "a$"              bare price in dollars                      *)
(* and, for the deal type, the phrases its detectors look for:             *)
(*   wanted   "сниму"           somebody looks for a flat to rent          *)
(*   buy      "куплю"           somebody looks for a flat to buy           *)
(*   daily    "посуточно"       rent by the day                            *)
(*   sale     "продам"          sale                                       *)
(*   saletag  "#продажа"        sale, as a hashtag                         *)
(*   cue      "депозит"         deposit, a cue of a long rent              *)
(* ("аренда", the item kw, is the phrase of a long rent).                  *)
(* Items are separated so that no pattern matches across two of them; a    *)
(* pattern.search is the first item of the text the pattern recognises.    *)
Tok(k, a, b, c, cur) == [k |-> k, a |-> a, b |-> b, c |-> c, cur |-> cur]

RoomNums  == {0, 2, 11}
FloorNums == {0, 5, 9, 51}
PriceNums == {0, 20, 700, 60000, 200000}

Tokens ==
    {Tok("word", 0, 0, 0, ""), Tok("kw", 0, 0, 0, ""), Tok("tag", 0, 0, 0, "")}
    \cup {Tok("triple", r, f, t, "") : r \in RoomNums, f \in {0, 5, 9}, t \in {5, 51}}
    \cup {Tok("rooms", n, 0, 0, "") : n \in RoomNums}
    \cup {Tok("roomsadj", n, 0, 0, "") : n \in {2, 11}}
    \cup {Tok("floor", n, 0, 0, "") : n \in FloorNums}
    \cup {Tok("total", n, 0, 0, "") : n \in {0, 5, 51}}
    \cup {Tok("price", n, 0, 0, cur) : n \in PriceNums, cur \in {"", "$", "sum"}}
    \cup {Tok("dollar", n, 0, 0, "$") : n \in {20, 700}}

\* pattern.search(text): the first item the pattern recognises, or None
\* (a pattern is the set of the items it recognises)
FirstMatch(text, Pattern) ==
    LET I == {i \in 1..Len(text) : text[i] \in Pattern}
    IN  IF I = {} THEN None ELSE <<text[CHOOSE i \in I : \A j \in I : i <= j]>>

\* match_first(patterns, text): the match of the first pattern of the list that
\* matches anywhere in the text, or None
RECURSIVE match_first(_, _)
match_first(patterns, text) ==
    IF patterns = <<>> THEN None
    ELSE IF FirstMatch(text, Head(patterns)) # None THEN FirstMatch(text, Head(patterns))
    ELSE match_first(Tail(patterns), text)

HasKind(text, kinds) == \E i \in 1..Len(text) : text[i].k \in kinds

\* re.findall(r'#(...)', text)
extract_hashtags(text) == SelectSeq(text, LAMBDA tok : tok.k \in {"tag", "saletag"})

\* the items the deal-type detectors tell apart
DealTokens ==
    {Tok(k, 0, 0, 0, "") :
        k \in {"word", "kw", "wanted", "buy", "daily", "sale", "saletag", "cue"}}

(* ------------------------------ parser.py ----------------------------- *)
MaxRooms    == 10        \* 0 < rooms <= 10
MaxFloor    == 50        \* 0 < floor <= 50, 0 < total_floors <= 50
UsdMin      == 50        \* 50 <= price <= 10000
UsdMax      == 10000
UzsMin      == 100000    \* price >= 100000
UzsAbove    == 50000     \* price > 50000: the currency is uzs
ParserReviewThreshold == 5    \* needs_review = parse_score < 5

TRIPLE_FORMAT == {tok \in Tokens : tok.k = "triple"}

\* "комнат: a" (the first pattern of the list) and "a комнатная" (the third)
ROOMS_PATTERNS ==
    <<{tok \in Tokens : tok.k = "rooms"}, {tok \in Tokens : tok.k = "roomsadj"}>>

FLOOR_PATTERNS == <<{tok \in Tokens : tok.k = "floor"}>>

TOTAL_FLOORS_PATTERNS == <<{tok \in Tokens : tok.k = "total"}>>

\* PRICE_PATTERNS[0]: (цена|narx) ... (\d[\d\s]*) ... (\$|...|сум)?
PRICE_PATTERN_label == {tok \in Tokens : tok.k = "price"}

\* PRICE_PATTERNS[1]: (\d{3,})\s*(\$|y.e|уе|долл); the other two patterns need "+" or
\* "narx", which no item carries
PRICE_PATTERN_dollar == {tok \in Tokens : tok.cur = "$" /\ tok.a >= 100}

parse_triple_format(text) ==
    LET m == FirstMatch(text, TRIPLE_FORMAT)
    IN  IF m = None THEN <<None, None, None>>
        ELSE IF /\ 0 < m[1].a /\ m[1].a <= MaxRooms
                /\ 0 < m[1].b /\ m[1].b <= MaxFloor
                /\ 0 < m[1].c /\ m[1].c <= MaxFloor
                /\ m[1].b <= m[1].c
             THEN <<<<m[1].a>>, <<m[1].b>>, <<m[1].c>>>>
             ELSE <<None, None, None>>

parse_rooms(text) ==
    LET m == match_first(ROOMS_PATTERNS, text)
    IN  IF m # None /\ m[1].a # 0 /\ 0 < m[1].a /\ m[1].a <= MaxRooms
        THEN <<m[1].a>> ELSE None

\* a number above 50 is dropped; floor and total_floors are not compared
parse_floor(text) ==
    LET m1 == match_first(FLOOR_PATTERNS, text)
        m2 == match_first(TOTAL_FLOORS_PATTERNS, text)
        Bounded(m) == IF m = None THEN None
                      ELSE IF m[1].a # 0 /\ m[1].a > MaxFloor THEN None
                      ELSE <<m[1].a>>
    IN  <<Bounded(m1), Bounded(m2)>>

\* one round of the loop of parse_price: the price and currency of a match, or
\* None when the loop goes on to the next pattern
PriceOfMatch(m) ==
    IF m = None THEN None
    ELSE IF m[1].a = 0 THEN None
    ELSE LET price    == m[1].a
             currency == IF m[1].cur = "sum" \/ price > UzsAbove THEN "uzs" ELSE "usd"
         IN  IF currency = "usd" /\ UsdMin <= price /\ price <= UsdMax
             THEN <<price, currency>>
             ELSE IF currency = "uzs" /\ price >= UzsMin THEN <<price, currency>>
             ELSE None

PRICE_PATTERNS == <<PRICE_PATTERN_label, PRICE_PATTERN_dollar>>

\* for pattern in PRICE_PATTERNS: the first pattern whose match passes the band
RECURSIVE PriceLoop(_, _)
PriceLoop(text, patterns) ==
    IF patterns = <<>> THEN <<None, None>>
    ELSE LET r == PriceOfMatch(FirstMatch(text, Head(patterns)))
         IN  IF r # None THEN <<<<r[1]>>, <<r[2]>>>>
             ELSE PriceLoop(text, Tail(patterns))

parse_price(text) == PriceLoop(text, PRICE_PATTERNS)

\* the hashtag loop of parse_district: an unknown tag is returned title-cased
parse_district(text, hashtags) ==
    IF hashtags # <<>> THEN <<"Rent">> ELSE None

\* keywords ("аренда", "комнат", "этаж"), hashtags ("rent"), the shorthand, or \d{2,4}\s*\$
parser_detect_is_real_estate(text, hashtags) ==
    \/ HasKind(text, {"kw", "rooms", "roomsadj", "floor", "total"})
    \/ hashtags # <<>>
    \/ FirstMatch(text, TRIPLE_FORMAT) # None
    \/ \E i \in 1..Len(text) : text[i].cur = "$" /\ text[i].a >= 10

\* wanted > daily > sale (text or hashtag) > rent_long, the default
parser_detect_deal_type(text, hashtags) ==
    IF HasKind(text, {"wanted"}) THEN "wanted_rent"
    ELSE IF HasKind(text, {"buy"}) THEN "wanted_buy"
    ELSE IF HasKind(text, {"daily"}) THEN "rent_daily"
    ELSE IF HasKind(text, {"sale", "saletag"}) \/ HasKind(hashtags, {"saletag"})
         THEN "sale"
    ELSE "rent_long"

\* the record parse_listing builds once the text has passed the gate; the keys that
\* no item of the text can set (area, deposit, location, amenities, ...) are left out
ParserRecord(text) ==
    LET tr    == parse_triple_format(text)
        ft    == parse_floor(text)
        rooms == IF tr[1] = None THEN parse_rooms(text) ELSE tr[1]
        floor == IF tr[2] = None THEN ft[1] ELSE tr[2]
        total == IF tr[3] = None THEN ft[2] ELSE tr[3]
        pc    == parse_price(text)
        district == parse_district(text, extract_hashtags(text))
        parse_score == Score(TruthyNum(rooms), 2) + Score(TruthyNum(floor), 1)
                       + Score(TruthyNum(total), 1) + Score(TruthyNum(pc[1]), 3)
                       + Score(TruthyStr(district), 2)
    IN  [is_real_estate |-> TRUE,
         deal_type      |-> <<parser_detect_deal_type(text, extract_hashtags(text))>>,
         object_type    |-> <<"flat">>,
         rooms          |-> rooms,
         floor          |-> floor,
         total_floors   |-> total,
         price          |-> pc[1],
         currency       |-> pc[2],
         price_period   |-> <<"month">>,
         district_raw   |-> district,
         parse_score    |-> <<parse_score>>,
         needs_review   |-> <<parse_score < ParserReviewThreshold>>]

\* mutant: the extractors run whatever the gate says
parse_listing_no_gate(text) ==
    IF text = <<>> THEN [is_real_estate |-> FALSE]
    ELSE [ParserRecord(text) EXCEPT !.is_real_estate =
              parser_detect_is_real_estate(text, extract_hashtags(text))]

parse_listing(text) ==
    IF text = <<>> THEN [is_real_estate |-> FALSE]
    ELSE IF ~parser_detect_is_real_estate(text, extract_hashtags(text))
         THEN [is_real_estate |-> FALSE]
         ELSE ParserRecord(text)

(* ---------------------------- tg_listener.py -------------------------- *)
TRIPLE_ROOMS_FLOORS == {tok \in Tokens : tok.k = "triple"}

ROOMS_LINE_PATTERNS == {tok \in Tokens : tok.k = "rooms"}

FLOOR_PATTERN == {tok \in Tokens : tok.k = "floor"}

LISTENER_TOTAL_FLOORS_PATTERNS == {tok \in Tokens : tok.k = "total"}

\* PRICE_PATTERNS[0]: цена ... (\d[\d\s]{0,12}) ... (\$|...|сум|sum|so'm)?
LISTENER_PRICE_PATTERN_label == {tok \in Tokens : tok.k = "price"}

\* PRICE_PATTERNS[1]: (\d[\d\s]{0,12})\s*\$
LISTENER_PRICE_PATTERN_dollar == {tok \in Tokens : tok.cur = "$"}

\* the three numbers as written: nothing is validated
detect_rooms_floors_triple(text_norm) ==
    LET m == FirstMatch(text_norm, TRIPLE_ROOMS_FLOORS)
    IN  IF m = None THEN <<None, None, None>>
        ELSE <<<<m[1].a>>, <<m[1].b>>, <<m[1].c>>>>

\* keywords ("аренда", "комнат", also in "комнатная"); no hashtag of the items is in its list
listener_detect_is_real_estate(text_norm, hashtags) ==
    HasKind(text_norm, {"kw", "rooms", "roomsadj"})

\* wanted > daily > "аренда" > sale (text or hashtag) > deposit cue > unknown
listener_detect_deal_type(text_norm, hashtags) ==
    IF HasKind(text_norm, {"wanted", "buy"})
    THEN (IF HasKind(text_norm, {"buy"}) THEN "wanted_buy" ELSE "wanted_rent")
    ELSE IF HasKind(text_norm, {"daily"}) THEN "rent_daily"
    ELSE IF HasKind(text_norm, {"kw"}) THEN "rent_long"
    ELSE IF HasKind(text_norm, {"sale", "saletag"}) \/ HasKind(hashtags, {"saletag"})
         THEN "sale"
    ELSE IF HasKind(text_norm, {"cue"}) THEN "rent_long"
    ELSE "unknown"

\* (rooms, rooms_options)
detect_rooms(text_norm) ==
    LET m == FirstMatch(text_norm, ROOMS_LINE_PATTERNS)
    IN  IF m = None THEN <<None, None>> ELSE <<<<m[1].a>>, None>>

detect_floor(text_norm) ==
    LET m  == FirstMatch(text_norm, FLOOR_PATTERN)
        m2 == FirstMatch(text_norm, LISTENER_TOTAL_FLOORS_PATTERNS)
    IN  <<IF m = None THEN None ELSE <<m[1].a>>,
          IF m2 = None THEN None ELSE <<m2[1].a>>>>

\* m.group(2) of a pattern that has one group
IndexError == <<"IndexError">>

\* the first pattern that matches gives the price: no bound is applied; the second
\* pattern has no group for the currency, and reading it raises
detect_price_and_period(text_norm, deal_type) ==
    LET m1 == FirstMatch(text_norm, LISTENER_PRICE_PATTERN_label)
        m  == IF m1 # None THEN m1
              ELSE FirstMatch(text_norm, LISTENER_PRICE_PATTERN_dollar)
    IN  IF m = None THEN <<None, None, None>>
        ELSE IF m1 = None THEN IndexError
        ELSE <<<<m[1].a>>,
               <<IF m[1].cur = "sum" THEN "uzs" ELSE "usd">>,
               <<IF deal_type = "rent_long" THEN "month" ELSE "total">>>>

ListenerRecord(text_norm, hashtags) ==
    LET deal_type == listener_detect_deal_type(text_norm, hashtags)
        tr     == detect_rooms_floors_triple(text_norm)
        single == tr[1] = None /\ tr[2] = None /\ tr[3] = None
        rs     == detect_rooms(text_norm)
        ft     == detect_floor(text_norm)
        pc     == detect_price_and_period(text_norm, deal_type)
    IN  IF pc = IndexError THEN [raised |-> IndexError] ELSE
        [is_real_estate |-> TRUE,
         deal_type      |-> <<deal_type>>,
         object_type    |-> <<"flat">>,
         rooms          |-> IF single THEN rs[1] ELSE tr[1],
         rooms_options  |-> IF single THEN rs[2] ELSE None,
         floor          |-> IF single THEN ft[1] ELSE tr[2],
         total_floors   |-> IF single THEN ft[2] ELSE tr[3],
         area_m2        |-> None,
         price          |-> pc[1],
         currency       |-> pc[2],
         price_period   |-> pc[3],
         deposit        |-> None,
         district_raw   |-> None,
         metro_raw      |-> None,
         has_commission |-> <<FALSE>>]

parse_real_estate(text, hashtags) ==
    IF text = <<>> THEN [is_real_estate |-> FALSE]
    ELSE IF ~listener_detect_is_real_estate(text, hashtags)
         THEN [is_real_estate |-> FALSE]
         ELSE ListenerRecord(text, hashtags)

(* -------------------- calls of the extraction pipelines ---------------- *)
ParserTexts == UNION {[1..n -> Tokens] : n \in 0..MaxTokens}

InitParse ==
    /\ db = EmptyDb
    /\ prev = EmptyDb
    /\ nops = 0
    /\ \E text \in ParserTexts : last = [op |-> "text", text |-> text, ret |-> None]

\* parser.parse_listing(text)
ParseListing ==
    /\ last.op = "text"
    /\ last' = [op |-> "parse_listing", text |-> last.text,
                ret |-> parse_listing(last.text)]
    /\ UNCHANGED <<db, prev, nops>>

\* tg_listener.parse_real_estate(text, tags), tags the hashtags of the message
ParseRealEstate ==
    /\ last.op = "text"
    /\ last' = [op |-> "parse_real_estate", text |-> last.text,
                ret |-> parse_real_estate(last.text, extract_hashtags(last.text))]
    /\ UNCHANGED <<db, prev, nops>>

NextParse == ParseListing \/ ParseRealEstate

SpecParse == InitParse /\ [][NextParse]_vars

(* ----------------------- calls of detect_deal_type --------------------- *)
DealTexts == UNION {[1..n -> DealTokens] : n \in 0..MaxTokens}

InitDeal ==
    /\ db = EmptyDb
    /\ prev = EmptyDb
    /\ nops = 0
    /\ \E text \in DealTexts : last = [op |-> "text", text |-> text, ret |-> None]

\* parser.detect_deal_type(text, hashtags), hashtags the hashtags of the text
ParserDetectDealType ==
    /\ last.op = "text"
    /\ last' = [op |-> "parser_detect_deal_type", text |-> last.text,
                ret |-> <<parser_detect_deal_type(last.text, extract_hashtags(last.text))>>]
    /\ UNCHANGED <<db, prev, nops>>

\* tg_listener.detect_deal_type(text_norm, hashtags)
ListenerDetectDealType ==
    /\ last.op = "text"
    /\ last' = [op |-> "listener_detect_deal_type", text |-> last.text,
                ret |-> <<listener_detect_deal_type(last.text,
                                                    extract_hashtags(last.text))>>]
    /\ UNCHANGED <<db, prev, nops>>

NextDeal == ParserDetectDealType \/ ListenerDetectDealType

SpecDeal == InitDeal /\ [][NextDeal]_vars

(* ----------------------- calls of compute_fingerprint ------------------ *)
\* n words "a" separated by single spaces
RECURSIVE Words(_)
Words(n) == IF n = 0 THEN <<>> ELSE IF n = 1 THEN <<"a">> ELSE <<"a", " ">> \o Words(n - 1)

\* up to k further words, each after a space, in either case
RECURSIVE Tails(_)
Tails(k) ==
    IF k = 0 THEN {<<>>}
    ELSE Tails(k - 1) \cup {<<" ", w>> \o t : w \in {"a", "B"}, t \in Tails(k - 1)}

\* texts of 19 to 19 + MaxTail words
FingerprintTexts == {Words(FingerprintWords - 1) \o t : t \in Tails(MaxTail)}

\* phone lists, entries in any order and possibly repeated
PhoneLists == UNION {[1..n -> {"p1", "p2"}] : n \in 0..MaxPhones}

Reverse(ps) == [i \in 1..Len(ps) |-> ps[Len(ps) + 1 - i]]

FingerprintCall(op, text, phones) ==
    [op |-> op, text |-> text, phones |-> phones,
     ret |-> compute_fingerprint(text, phones),
     text0 |-> last.text, phones0 |-> last.phones, ret0 |-> last.ret]

InitFingerprint ==
    /\ db = EmptyDb
    /\ prev = EmptyDb
    /\ nops = 0
    /\ \E text \in FingerprintTexts, phones \in PhoneLists :
          last = [op |-> "compute_fingerprint", text |-> text, phones |-> phones,
                  ret |-> compute_fingerprint(text, phones),
                  text0 |-> text, phones0 |-> phones,
                  ret0 |-> compute_fingerprint(text, phones)]

\* the same call once more
Recompute ==
    /\ last.op = "compute_fingerprint"
    /\ last' = FingerprintCall("recompute", last.text, last.phones)
    /\ UNCHANGED <<db, prev, nops>>

\* a text with the same first 20 words and any other words after them
ChangeTail ==
    /\ last.op = "compute_fingerprint"
    /\ Len(Split(last.text, <<>>)) >= FingerprintWords
    /\ \E t \in Tails(MaxTail) :
          last' = FingerprintCall("change_tail",
                      Join(FirstWords(Split(last.text, <<>>), FingerprintWords)) \o t,
                      last.phones)
    /\ UNCHANGED <<db, prev, nops>>

\* the phone list in another order
ReorderPhones ==
    /\ last.op = "compute_fingerprint"
    /\ last' = FingerprintCall("reorder_phones", last.text, Reverse(last.phones))
    /\ UNCHANGED <<db, prev, nops>>

\* the phone list with one of its entries once more
RepeatPhone ==
    /\ last.op = "compute_fingerprint"
    /\ \E i \in 1..Len(last.phones) :
          last' = FingerprintCall("repeat_phone", last.text,
                                  Append(last.phones, last.phones[i]))
    /\ UNCHANGED <<db, prev, nops>>

NextFingerprint == Recompute \/ ChangeTail \/ ReorderPhones \/ RepeatPhone

SpecFingerprint == InitFingerprint /\ [][NextFingerprint]_vars

(* ------------------------- reading the last call ----------------------- *)
IsSave == last.op = "save_post"

\* the call returned the id of the post it stored
SavedOk == IsSave /\ last.ret # NoId

\* the post_uid of the call was already stored when it began
WasStored == IsSave /\ \E i \in PostIds(prev) : prev.posts[i].post_uid = last.pd.post_uid

\* the Duplicate rows the last call added
NewLinks == {db.duplicates[k] : k \in (Len(prev.duplicates) + 1)..Len(db.duplicates)}

Links(d) == {d.duplicates[k] : k \in 1..Len(d.duplicates)}

HasLink(d, o, x, mt) ==
    \E r \in Links(d) : r.original_id = o /\ r.duplicate_id = x /\ r.match_type = mt

\* live posts p, q carry the same text hash
SameHash(d, p, q) ==
    /\ d.posts[p].text_hash # NoHash
    /\ d.posts[p].text_hash = d.posts[q].text_hash

Live(d, p) == ~d.posts[p].is_deleted

(* -------------------------------- claims ------------------------------ *)

\* C1: a save_post whose post_uid is already stored returns None, does not raise and
\* leaves posts, listings, media and links as they were; a post_uid is stored once.
C1_Idempotent ==
    /\ WasStored => last.ret = NoId /\ ~last.raised /\ db = prev
    /\ \A i, j \in PostIds(db) : db.posts[i].post_uid = db.posts[j].post_uid => i = j

C1_Witness ==
    /\ WasStored
    /\ last.ret = NoId
    /\ db.media # {} /\ db.listings # {} /\ db.duplicates # <<>>

GroupOf(d, p) == {x \in PostIds(d) : d.posts[x].text_hash = d.posts[p].text_hash}

C4_Original ==
    \A r \in Links(db) :
        db.posts[r.original_id].published_at < db.posts[r.duplicate_id].published_at

\* C4 amended: the original of every link, text_exact or phone, is not later than
\* its duplicate (with equal timestamps the post ingested last is the original).
C4_OriginalNotLater ==
    \A r \in Links(db) :
        /\ db.posts[r.original_id].published_at <= db.posts[r.duplicate_id].published_at
        /\ db.posts[r.original_id].published_at = db.posts[r.duplicate_id].published_at
              => r.original_id > r.duplicate_id

C4_Witness ==
    /\ \E r \in Links(db) : r.match_type = "phone" /\ r.original_id < r.duplicate_id
    /\ \E r \in Links(db) : r.match_type = "text_exact" /\ r.original_id > r.duplicate_id

\* C5: no two committed Duplicate rows carry the same (original_id, duplicate_id).
C5_PairUnique ==
    \A k, l \in 1..Len(db.duplicates) :
        (/\ db.duplicates[k].original_id = db.duplicates[l].original_id
         /\ db.duplicates[k].duplicate_id = db.duplicates[l].duplicate_id) => k = l

\* the constraint acted: a call tried to insert a stored pair again
C5_Witness ==
    /\ IsSave /\ last.raised /\ last.step = "duplicate"
    /\ \E i \in PostIds(db) : SameHash(db, i, i) /\ db.posts[i].phones = last.pd.phones

\* the stored live posts the new post of the last call matches by text hash / phone
StoredHashMatches ==
    IF last.pd.text = <<>> THEN {}
    ELSE LET h == compute_text_hash(last.pd.text)
         IN  {x \in PostIds(prev) : Live(prev, x) /\ prev.posts[x].text_hash = h}

StoredPhoneMatches ==
    {x \in PostIds(prev) : Live(prev, x) /\ prev.posts[x].phones \cap last.pd.phones # {}}

\* C6 as claimed: a new post that matches one stored post both by text hash and by
\* phone is still stored, and save_post returns its id instead of raising.
C6_ConflictHandled ==
    (IsSave /\ ~WasStored /\ StoredHashMatches \cap StoredPhoneMatches # {}) => SavedOk

\* C7 as claimed: an ingestion that creates a text_exact link creates no phone link.
C7_PhoneOnlyWithoutText ==
    SavedOk => ~(/\ \E r \in NewLinks : r.match_type = "text_exact"
                 /\ \E r \in NewLinks : r.match_type = "phone")

\* the new text_exact rows with similarity 1.0 that link the posts x and n
NewExactRows(x, n) ==
    {k \in (Len(prev.duplicates) + 1)..Len(db.duplicates) :
        /\ db.duplicates[k].match_type = "text_exact"
        /\ db.duplicates[k].similarity = SimExact
        /\ {db.duplicates[k].original_id, db.duplicates[k].duplicate_id} = {x, n}}

NoSelfLink == \A r \in Links(db) : r.original_id # r.duplicate_id

C9_DeletedNotMatched ==
    IsSave =>
        \A x \in PostIds(prev) :
            prev.posts[x].is_deleted =>
                /\ db.posts[x].duplicate_of = prev.posts[x].duplicate_of
                /\ \A r \in NewLinks : r.original_id # x /\ r.duplicate_id # x

\* a stored post was deleted, and a post with its text and its phone was then stored
C9_Witness ==
    /\ SavedOk
    /\ \E x \in PostIds(prev) :
          /\ prev.posts[x].is_deleted
          /\ prev.posts[x].text_hash = db.posts[last.ret].text_hash
          /\ prev.posts[x].text_hash # NoHash
          /\ prev.posts[x].phones \cap last.pd.phones # {}

\* C10 as claimed: every set duplicate_of refers to a post whose own duplicate_of is
\* unset, the earliest post of the hash group.
C10_PointsToOriginal ==
    \A p \in PostIds(db) :
        db.posts[p].duplicate_of # NoId =>
            /\ db.posts[db.posts[p].duplicate_of].duplicate_of = NoId
            /\ \A x \in GroupOf(db, p) :
                  db.posts[db.posts[p].duplicate_of].published_at
                      <= db.posts[x].published_at

\* C11 as claimed: once the duplicate_of of a stored post is set, no later ingestion
\* changes it to another value.
C11_WrittenOnce ==
    IsSave =>
        \A p \in PostIds(prev) :
            prev.posts[p].duplicate_of # NoId
                => db.posts[p].duplicate_of = prev.posts[p].duplicate_of

C13_Abstains ==
    (IsSave /\ ~WasStored) =>
        /\ last.pd.text = <<>> =>
              /\ SavedOk
              /\ db.posts[last.ret].text_hash = NoHash
              /\ \A r \in NewLinks : r.match_type # "text_exact"
        /\ last.pd.phones = {} =>
              /\ SavedOk
              /\ \A r \in NewLinks : r.match_type # "phone"

\* a post without text was ingested while another live post without text was stored,
\* and its phone step still linked it
C13_Witness ==
    /\ SavedOk /\ ~WasStored
    /\ last.pd.text = <<>>
    /\ \E x \in PostIds(prev) : Live(prev, x) /\ prev.posts[x].text_hash = NoHash
    /\ \E r \in NewLinks : r.match_type = "phone"

\* C15: after a successful save_post the stored post has a listing exactly when the
\* parsed record says is_real_estate, no post has two listings, and the duplicate
\* check ran whatever the parsed record says: every stored live post of the same
\* text hash is linked to the new post.
C15_ListingIffRealEstate ==
    /\ SavedOk =>
          /\ ListingsOf(db, last.ret) # {} <=> IsRealEstate(last.pd.parsed)
          /\ \A x \in StoredHashMatches :
                \E r \in NewLinks : {r.original_id, r.duplicate_id} = {x, last.ret}
    /\ \A p \in PostIds(db) : Cardinality(ListingsOf(db, p)) <= 1

\* a post that is not real estate was stored without a listing and linked to a
\* stored post that has one
C15_Witness ==
    /\ SavedOk /\ ~WasStored
    /\ ~IsRealEstate(last.pd.parsed)
    /\ ListingsOf(db, last.ret) = {}
    /\ \E r \in NewLinks : ListingsOf(db, r.original_id) # {}

\* C20: the parse_score of every stored listing is between 0 and 9, its needs_review
\* flag is set exactly when the score is below 4 or the deal type is 'unknown', and a
\* real-estate record is stored with its listing whether or not it needs review.
C20_ReviewFlag ==
    /\ \A l \in db.listings :
          /\ l.parse_score \in 0..9
          /\ l.needs_review <=> (l.parse_score < 4 \/ l.deal_type = <<"unknown">>)
    /\ (IsSave /\ IsRealEstate(last.pd.parsed)) =>
          /\ SavedOk
          /\ ListingsOf(db, last.ret) # {}

\* a complete record of unknown deal type is stored with the top score and the flag
C20_Witness ==
    \E l \in db.listings : l.parse_score = 9 /\ l.needs_review

\* C19 as claimed: the fingerprint is the same when the call is repeated, when the
\* text changes after its 20th word, when the phone list is reordered and when an
\* entry of the phone list is repeated.
C19_Fingerprint ==
    last.op \in {"recompute", "change_tail", "reorder_phones", "repeat_phone"}
        => last.ret = last.ret0

\* the last call was a call of one of the two extraction pipelines
IsParse == last.op \in {"parse_listing", "parse_real_estate"}

\* C14: when the relevance gate of a pipeline is false for the text, the result is
\* exactly {is_real_estate: false}; a result that is not real estate has no other key.
C14_GateFalse ==
    /\ (/\ last.op = "parse_listing"
        /\ ~parser_detect_is_real_estate(last.text, extract_hashtags(last.text)))
          => last.ret = [is_real_estate |-> FALSE]
    /\ (/\ last.op = "parse_real_estate"
        /\ ~listener_detect_is_real_estate(last.text, extract_hashtags(last.text)))
          => last.ret = [is_real_estate |-> FALSE]
    /\ (IsParse /\ "is_real_estate" \in DOMAIN last.ret /\ ~last.ret.is_real_estate)
          => DOMAIN last.ret = {"is_real_estate"}

\* a text with a labelled price in band and a word, but nothing that opens the gate
C14_Witness ==
    /\ last.op = "parse_listing"
    /\ last.ret = [is_real_estate |-> FALSE]
    /\ \E i \in 1..Len(last.text) : last.text[i].k = "price" /\ last.text[i].a = 700

\* C16 as claimed: a record with both floor and total_floors has floor <= total_floors
\* and both at most 50.
C16_FloorBound ==
    (/\ IsParse /\ IsRealEstate(last.ret)
     /\ last.ret.floor # None /\ last.ret.total_floors # None)
        => /\ last.ret.floor[1] <= last.ret.total_floors[1]
           /\ last.ret.floor[1] <= 50
           /\ last.ret.total_floors[1] <= 50

\* the shorthand a/b/c is within the bounds of the claim
ValidTriple(tok) ==
    /\ 1 <= tok.a /\ tok.a <= 10
    /\ 1 <= tok.b /\ tok.b <= 50
    /\ 1 <= tok.c /\ tok.c <= 50
    /\ tok.b <= tok.c

\* C17 as claimed: when the shorthand of a text violates the bounds and the text has
\* no labelled rooms, floor or total floors, the record has none of the three fields.
C17_TripleRejected ==
    (/\ IsParse /\ IsRealEstate(last.ret)
     /\ \E i \in 1..Len(last.text) : last.text[i].k = "triple"
     /\ \A i \in 1..Len(last.text) :
           /\ last.text[i].k = "triple" => ~ValidTriple(last.text[i])
           /\ last.text[i].k \notin {"rooms", "roomsadj", "floor", "total"})
        => /\ last.ret.rooms = None
           /\ last.ret.floor = None
           /\ last.ret.total_floors = None

\* C18 as claimed: a returned price is positive, within [50, 10000] under usd and at
\* least 100000 under uzs; price and currency are absent together.
C18_PriceBand ==
    (IsParse /\ IsRealEstate(last.ret)) =>
        /\ last.ret.price = None <=> last.ret.currency = None
        /\ last.ret.price # None =>
              /\ last.ret.price[1] > 0
              /\ last.ret.currency = <<"usd">>
                    => 50 <= last.ret.price[1] /\ last.ret.price[1] <= 10000
              /\ last.ret.currency = <<"uzs">> => last.ret.price[1] >= 100000

\* the posts whose duplicate_of the last call set or changed
Repointed ==
    {p \in PostIds(db) :
        /\ db.posts[p].duplicate_of # NoId
        /\ p \in PostIds(prev) => db.posts[p].duplicate_of # prev.posts[p].duplicate_of}

\* C27: every set duplicate_of = q of a post p has a text_exact Duplicate row (q, p);
\* a call sets or changes a duplicate_of only together with the text_exact row it
\* inserts for that pair, never for a phone row.
C27_PointerHasExactLink ==
    /\ \A p \in PostIds(db) :
          db.posts[p].duplicate_of # NoId
              => HasLink(db, db.posts[p].duplicate_of, p, "text_exact")
    /\ \A p \in Repointed :
          \E r \in NewLinks : /\ r.match_type = "text_exact"
                              /\ r.duplicate_id = p
                              /\ r.original_id = db.posts[p].duplicate_of

\* the call inserted a phone row whose duplicate is a stored post that keeps the
\* duplicate_of a text_exact row gave it
C27_Witness ==
    /\ SavedOk
    /\ \E r \in NewLinks :
          /\ r.match_type = "phone"
          /\ r.duplicate_id \in PostIds(prev)
          /\ prev.posts[r.duplicate_id].duplicate_of # NoId
          /\ db.posts[r.duplicate_id].duplicate_of = prev.posts[r.duplicate_id].duplicate_of
          /\ db.posts[r.duplicate_id].duplicate_of # r.original_id

\* following duplicate_of from p for at most n steps ends at a post with the pointer unset
RECURSIVE ReachesOriginal(_, _, _)
ReachesOriginal(d, p, n) ==
    IF d.posts[p].duplicate_of = NoId THEN TRUE
    ELSE IF n = 0 THEN FALSE
    ELSE ReachesOriginal(d, d.posts[p].duplicate_of, n - 1)

\* C28: no post is duplicate_of itself, every set duplicate_of names a stored post, and
\* the chain of duplicate_of pointers from any post ends at a post whose pointer is
\* unset, whatever the timestamps and the order of arrival.
C28_Acyclic ==
    \A p \in PostIds(db) :
        /\ db.posts[p].duplicate_of # p
        /\ db.posts[p].duplicate_of \in PostIds(db) \cup {NoId}
        /\ ReachesOriginal(db, p, Len(db.posts))

\* a chain of two pointers, the first between posts of equal timestamp
C28_Witness ==
    \E p \in PostIds(db) :
        LET q == db.posts[p].duplicate_of
        IN  /\ q # NoId
            /\ db.posts[q].duplicate_of # NoId
            /\ db.posts[q].published_at = db.posts[db.posts[q].duplicate_of].published_at

\* the post filter of get_listings: Post.is_deleted == False, Post.duplicate_of IS NULL
Canonical(d, p) == ~d.posts[p].is_deleted /\ d.posts[p].duplicate_of = NoId

\* C29 as claimed: every group of stored posts of one text hash that has a post which
\* is not deleted has a post which is not deleted and whose duplicate_of is unset.
C29_GroupVisible ==
    \A p \in PostIds(db) :
        (db.posts[p].text_hash # NoHash /\ Live(db, p))
            => \E x \in GroupOf(db, p) : Canonical(db, x)

\* the stored posts a mark_deleted(message_ids, channel_id) call addresses
Addressed(d, pd) ==
    {p \in PostIds(d) :
        /\ \E k \in 1..Len(pd.message_ids) : d.posts[p].message_id = pd.message_ids[k]
        /\ pd.channel_id # NoId => d.posts[p].channel_id = pd.channel_id}

FirstTriple(text) == FirstMatch(text, {tok \in Tokens : tok.k = "triple"})

\* C23 as claimed: when the shorthand of the text is valid its three values are the
\* rooms, floor and total_floors of the record whatever the labelled patterns give;
\* when it is absent or invalid each of the three fields is what the labelled
\* extractor of the pipeline gives for it.
C23_FieldMerge ==
    (IsParse /\ IsRealEstate(last.ret)) =>
        LET tr == FirstTriple(last.text)
            lr == IF last.op = "parse_listing" THEN parse_rooms(last.text)
                  ELSE detect_rooms(last.text)[1]
            lf == IF last.op = "parse_listing" THEN parse_floor(last.text)
                  ELSE detect_floor(last.text)
        IN  IF tr # None /\ ValidTriple(tr[1])
            THEN /\ last.ret.rooms = <<tr[1].a>>
                 /\ last.ret.floor = <<tr[1].b>>
                 /\ last.ret.total_floors = <<tr[1].c>>
            ELSE /\ last.ret.rooms = lr
                 /\ last.ret.floor = lf[1]
                 /\ last.ret.total_floors = lf[2]

\* the items of the text that a price pattern of parser.py recognises
PriceItems(text) ==
    {i \in 1..Len(text) : text[i] \in PRICE_PATTERN_label \cup PRICE_PATTERN_dollar}

\* C25 as claimed: the currency of the price parse_listing returns is usd when the
\* item it was read from carries "$", uzs when it carries "sum", and is decided by
\* the magnitude (above 50000: uzs, otherwise usd) only when it carries no unit.
C25_CurrencyByUnit ==
    (/\ last.op = "parse_listing" /\ IsRealEstate(last.ret)
     /\ last.ret.price # None
     /\ Cardinality(PriceItems(last.text)) = 1)
        => LET tok == last.text[CHOOSE i \in PriceItems(last.text) : TRUE]
           IN  last.ret.currency =
                  IF tok.cur = "$" THEN <<"usd">>
                  ELSE IF tok.cur = "sum" THEN <<"uzs">>
                  ELSE IF last.ret.price[1] > 50000 THEN <<"uzs">> ELSE <<"usd">>

\* 0 < rooms <= 10
RoomsInBound(m) == m # None /\ 0 < m[1].a /\ m[1].a <= 10

\* the value of the first pattern of the list, in list order, whose match is in bound
RECURSIVE FirstInBound(_, _)
FirstInBound(patterns, text) ==
    IF patterns = <<>> THEN None
    ELSE IF RoomsInBound(FirstMatch(text, Head(patterns)))
         THEN <<FirstMatch(text, Head(patterns))[1].a>>
         ELSE FirstInBound(Tail(patterns), text)

\* C24 as claimed: in a text without shorthand, the rooms of the record are the value
\* of the first rooms pattern, in list order, that matches with a value in bound; a
\* pattern that matches with a value out of bound does not end the search.
C24_FirstValidPattern ==
    (/\ last.op = "parse_listing" /\ IsRealEstate(last.ret)
     /\ FirstTriple(last.text) = None)
        => last.ret.rooms = FirstInBound(ROOMS_PATTERNS, last.text)

IsDeal == last.op \in {"parser_detect_deal_type", "listener_detect_deal_type"}

\* C26 as claimed: the deal type follows the precedence wanted > daily > sale (text or
\* hashtag) > long rent > deposit cue > default (rent_long in parser.py, unknown in
\* the listener): sale with long-rent phrasing is sale, daily with sale is rent_daily.
C26_DealPrecedence ==
    IsDeal =>
        LET Has(kinds) == HasKind(last.text, kinds)
        IN  IF Has({"wanted", "buy"}) THEN last.ret[1] \in {"wanted_rent", "wanted_buy"}
            ELSE IF Has({"daily"}) THEN last.ret[1] = "rent_daily"
            ELSE IF Has({"sale", "saletag"}) THEN last.ret[1] = "sale"
            ELSE IF Has({"kw", "cue"}) THEN last.ret[1] = "rent_long"
            ELSE last.ret[1] = IF last.op = "parser_detect_deal_type"
                               THEN "rent_long" ELSE "unknown"

\* both concurrent calls have returned or raised
BothDone == last.op = "concurrent" /\ \A t \in Tasks : last.tasks[t].pc = "done"

\* the stored posts that carry the post_uid
StoredWithUid(uid) == {i \in PostIds(db) : db.posts[i].post_uid = uid}

\* C21 as claimed: when two concurrent save_post calls carry the same post_uid, one
\* post with that post_uid is stored, one call returns its id, and the other call
\* returns None without raising.
C21_ConcurrentIdempotent ==
    (BothDone /\ last.tasks[1].pd.post_uid = last.tasks[2].pd.post_uid) =>
        /\ Cardinality(StoredWithUid(last.tasks[1].pd.post_uid)) = 1
        /\ \E t \in Tasks :
              /\ last.tasks[t].ret \in StoredWithUid(last.tasks[1].pd.post_uid)
              /\ ~last.tasks[t].raised
              /\ last.tasks[Other(t)].ret = NoId
              /\ ~last.tasks[Other(t)].raised

\* C22 as claimed: when two concurrent save_post calls with different post_uids both
\* commit posts of the same text hash, or posts that share a phone, a Duplicate row
\* links the two posts afterwards and neither call has raised.
C22_ConcurrentLinked ==
    (/\ BothDone
     /\ \A t \in Tasks : last.tasks[t].ret # NoId
     /\ last.tasks[1].pd.post_uid # last.tasks[2].pd.post_uid
     /\ \/ SameHash(db, last.tasks[1].ret, last.tasks[2].ret)
        \/ last.tasks[1].pd.phones \cap last.tasks[2].pd.phones # {})
        => /\ \E r \in Links(db) :
                 {r.original_id, r.duplicate_id} = {last.tasks[1].ret, last.tasks[2].ret}
           /\ \A t \in Tasks : ~last.tasks[t].raised

====
